---------------------------- MODULE Spec2Model ----------------------------
(***************************************************************************)
(* fixmd (main.go): backup-then-transform batch pipeline.                  *)
(*                                                                         *)
(* Paths and file contents are sequences of one-character strings.  The    *)
(* file system is a function from the paths of the existing files to their *)
(* contents.  Spec is a whole run of main() from the call of               *)
(* backupAllFiles on; SpecRetry is one invocation of                       *)
(* processWithGeminiRetry with its delays in milliseconds.                 *)
(***************************************************************************)
EXTENDS Integers, Sequences, FiniteSets, TLC

(***************************************************************************)
(* Program constants (main.go, const block).  Durations in milliseconds.   *)
(***************************************************************************)
MaxRetries == 5
InitialBackoff == 1000
MaxBackoff == 30000
MaxConcurrent == 3
BackupDirName == <<"b", "a", "c", "k", "u", "p">>

(***************************************************************************)
(* Bounds of the model.                                                    *)
(***************************************************************************)
\* the largest batch (number of discovered files) of a run
MaxFiles == 4
\* the write-backs of the first MaxFaultyFiles files of the batch may fail
MaxFaultyFiles == 1

(***************************************************************************)
(* Strings and paths: strings.HasPrefix, strings.ReplaceAll and the        *)
(* path/filepath functions, on clean absolute Unix paths.                  *)
(***************************************************************************)
Separator == "/"

HasPrefix(s, prefix) ==
    /\ Len(prefix) <= Len(s)
    /\ SubSeq(s, 1, Len(prefix)) = prefix

HasSuffix(s, suffix) ==
    /\ Len(suffix) <= Len(s)
    /\ SubSeq(s, Len(s) - Len(suffix) + 1, Len(s)) = suffix

\* strings.ReplaceAll(s, old, new) for one-character old and new
ReplaceAll(s, old, new) ==
    [i \in 1..Len(s) |-> IF s[i] = old THEN new ELSE s[i]]

\* index of the last separator of p, 0 when there is none
LastSep(p) ==
    LET idx == {i \in 1..Len(p) : p[i] = Separator}
    IN  IF idx = {} THEN 0 ELSE CHOOSE i \in idx : \A j \in idx : j <= i

\* filepath.Base of a clean path
Base(p) == SubSeq(p, LastSep(p) + 1, Len(p))

\* filepath.Dir of a clean path
Dir(p) ==
    IF LastSep(p) = 0 THEN <<".">>
    ELSE IF LastSep(p) = 1 THEN <<Separator>>
    ELSE SubSeq(p, 1, LastSep(p) - 1)

\* filepath.Join of two clean elements: empty elements are ignored
Join(a, b) ==
    IF a = <<>> THEN b
    ELSE IF b = <<>> THEN a
    ELSE a \o <<Separator>> \o b

\* a directory and all its ancestors (what os.MkdirAll makes exist)
Ancestors(d) ==
    {SubSeq(d, 1, k - 1) : k \in {i \in 2..Len(d) : d[i] = Separator}} \cup {d}

(***************************************************************************)
(* The environment: the working directory and the markdown files that a    *)
(* walk can discover, in the lexical order of filepath.Walk.               *)
(***************************************************************************)
WorkDir == <<"/", "w">>
BackupDir == Join(WorkDir, BackupDirName)

MdSuffix == <<".", "m", "d">>
BakSuffix == <<".", "b", "a", "k">>

\* /w/a.md, /w/d/a.md, /wx/a.md, /x/a/b.md, /x/a_b.md
AllPaths ==
    << <<"/", "w", "/", "a">> \o MdSuffix,
       <<"/", "w", "/", "d", "/", "a">> \o MdSuffix,
       <<"/", "w", "x", "/", "a">> \o MdSuffix,
       <<"/", "x", "/", "a", "/", "b">> \o MdSuffix,
       <<"/", "x", "/", "a", "_", "b">> \o MdSuffix >>

\* the content of the k-th file of AllPaths when the run starts
OriginalContent(k) ==
    CASE k = 1 -> <<"1">>
      [] k = 2 -> <<"2">>
      [] k = 3 -> <<"3">>
      [] k = 4 -> <<"4">>
      [] OTHER -> <<"5">>

\* the file system when the run starts: the discoverable files, no backups
InitialFS == [p \in {AllPaths[k] : k \in 1..Len(AllPaths)} |->
                 OriginalContent(CHOOSE k \in 1..Len(AllPaths) : AllPaths[k] = p)]

\* texts the remote service may return
Texts == {<<"x", "y">>}


(***************************************************************************)
(* os.WriteFile(name, data, perm): open with O_WRONLY|O_CREATE|O_TRUNC,    *)
(* write, close.  The outcomes: the open fails and the file is untouched;  *)
(* the file is truncated and k bytes of data reach it before the write or  *)
(* the close fails; or all of data is written and nil is returned.  The    *)
(* open needs the parent directory to exist.                               *)
(***************************************************************************)
PutFile(fsys, name, data) ==
    [p \in DOMAIN fsys \cup {name} |-> IF p = name THEN data ELSE fsys[p]]

WriteFile(fsys, dirset, name, data) ==
    {[fs |-> fsys, err |-> TRUE]}
    \cup
    (IF Dir(name) \in dirset
     THEN {[fs |-> PutFile(fsys, name, SubSeq(data, 1, k)), err |-> TRUE] :
               k \in 0..Len(data)}
          \cup {[fs |-> PutFile(fsys, name, data), err |-> FALSE]}
     ELSE {})

(***************************************************************************)
(* prepareFileForProcessing: the FileToProcess of a source path.  filePath *)
(* is clean and absolute, so filepath.Abs returns it unchanged.            *)
(***************************************************************************)
prepareFileForProcessing(filePath, backupBaseDir, fsys) ==
    LET content == fsys[filePath]
        absFilePath == filePath
        fileDir == Dir(absFilePath)
        absWorkDir == WorkDir
        flat == ReplaceAll(absFilePath, Separator, "_")
        relPath ==
            IF fileDir = absWorkDir
            THEN Base(filePath)
            ELSE IF HasPrefix(fileDir, absWorkDir)
            THEN Join(SubSeq(fileDir, Len(absWorkDir) + 2, Len(fileDir)),
                      Base(filePath))
            ELSE IF Len(flat) > 0 /\ (flat[1] = "/" \/ flat[1] = "\\")
            THEN Tail(flat)
            ELSE flat
    IN  [Path |-> filePath,
         Content |-> content,
         BackupPath |-> Join(backupBaseDir, relPath \o BakSuffix)]

(***************************************************************************)
(* processWithGemini: one remote call, as a function of what the service   *)
(* and the transport answer.  A response is the error of client.Do (a      *)
(* timeout included), the error of reading the body, the status code,      *)
(* whether the body is well-formed JSON, and the candidates with the texts *)
(* of their parts.                                                         *)
(***************************************************************************)
StatusOK == 200

Response(sendErr, readErr, status, bodyOk, candidates) ==
    [sendErr |-> sendErr, readErr |-> readErr, status |-> status,
     bodyOk |-> bodyOk, candidates |-> candidates]

Responses ==
    { Response(TRUE, FALSE, 0, FALSE, <<>>),
      Response(FALSE, TRUE, StatusOK, FALSE, <<>>),
      Response(FALSE, FALSE, 500, TRUE, << << <<"e">> >> >>),
      Response(FALSE, FALSE, StatusOK, FALSE, <<>>),
      Response(FALSE, FALSE, StatusOK, TRUE, <<>>),
      Response(FALSE, FALSE, StatusOK, TRUE, << <<>> >>) }
    \cup
    { Response(FALSE, FALSE, StatusOK, TRUE, << <<t>> >>) : t \in Texts }
    \cup
    { Response(FALSE, FALSE, StatusOK, TRUE, << <<t, <<"z">> >>, <<>> >>) :
          t \in Texts }

\* errors are sequences of messages, the wrapped cause last; nil is empty
NoError == <<>>

\* mutant of processWithGemini: the status code is not tested
processWithGeminiAnyStatus(resp) ==
    IF resp.sendErr
    THEN [text |-> <<>>, err |-> <<"error sending request">>]
    ELSE IF resp.readErr
    THEN [text |-> <<>>, err |-> <<"error reading response">>]
    ELSE IF ~resp.bodyOk
    THEN [text |-> <<>>, err |-> <<"error unmarshaling response">>]
    ELSE IF Len(resp.candidates) = 0 \/ Len(resp.candidates[1]) = 0
    THEN [text |-> <<>>, err |-> <<"no valid response from API">>]
    ELSE [text |-> resp.candidates[1][1], err |-> NoError]

processWithGemini(resp) ==
    IF resp.sendErr
    THEN [text |-> <<>>, err |-> <<"error sending request">>]
    ELSE IF resp.readErr
    THEN [text |-> <<>>, err |-> <<"error reading response">>]
    ELSE IF resp.status # StatusOK
    THEN [text |-> <<>>, err |-> <<"API returned error status">>]
    ELSE IF ~resp.bodyOk
    THEN [text |-> <<>>, err |-> <<"error unmarshaling response">>]
    ELSE IF Len(resp.candidates) = 0 \/ Len(resp.candidates[1]) = 0
    THEN [text |-> <<>>, err |-> <<"no valid response from API">>]
    ELSE [text |-> resp.candidates[1][1], err |-> NoError]


(***************************************************************************)
(* processWithGeminiRetry as a function of the results of the calls it     *)
(* makes: results[k] is what the k-th call of processWithGemini returns.   *)
(* The loop reads nothing but its own variables, so a whole run takes it   *)
(* in one step; SpecRetry takes it call by call and sleep by sleep.        *)
(***************************************************************************)
MaxRetriesExceeded(cause) == <<"max retries exceeded">> \o cause

\* mutant of LoopContinues: the loop runs once more (attempt <= MaxRetries)
LoopOneMore(att) == att <= MaxRetries

\* the loop's condition: attempt < MaxRetries
LoopContinues(att) == att < MaxRetries

RECURSIVE RetryLoop(_, _, _)
RetryLoop(att, last, results) ==
    IF LoopContinues(att)
    THEN LET r == results[att + 1]
         IN  IF r.err = NoError
             THEN [text |-> r.text, err |-> NoError]
             ELSE RetryLoop(att + 1, r.err, results)
    ELSE [text |-> <<>>, err |-> MaxRetriesExceeded(last)]

processWithGeminiRetry(results) == RetryLoop(0, NoError, results)

\* the runs of responses a whole run draws from: some failed calls, then a
\* successful one or none
FailedResponse == Response(TRUE, FALSE, 0, FALSE, <<>>)

ResponseRuns ==
    { [k \in 1..(f + 1) |->
          IF k <= f THEN FailedResponse
          ELSE Response(FALSE, FALSE, StatusOK, TRUE, << <<t>> >>)] :
      f \in 0..(MaxRetries - 1), t \in Texts }
    \cup { [k \in 1..MaxRetries |-> FailedResponse] }

(***************************************************************************)
(* State.                                                                  *)
(***************************************************************************)
VARIABLES
    filesToProcess, \* main: the batch, a sequence of FileToProcess
    fs,             \* the files that exist, with their contents
    dirs,           \* the directories that exist
    pc,             \* where main() is
    i,              \* backupAllFiles: index of the file being backed up
    backupErr,      \* the error backupAllFiles returned (NoError: nil)
    launched,       \* main: how many goroutines the range loop has started
    sem,            \* apiSemaphore: len(ch)
    wg,             \* the WaitGroup's counter
    total, processed, success, failed, \* statusBar's counters
    mu,             \* statusBar.mu: the worker holding it, 0 when free
    rendered,       \* what the last status line printed showed
    wpc,            \* where each worker goroutine is
    transformed,    \* what processWithGeminiRetry returned to each worker
    writeErr,       \* what the write-back of each worker returned
    ok,             \* what processFileContent returned to each worker
    reported,       \* the Increment calls each worker made, in order
    invocation,     \* which run of the program this is, from 1
    dirPath,        \* collectFilesFromDir: the directory given
    recursive,      \* collectFilesFromDir: the -r flag
    walkQueue,      \* filepath.Walk: the entries it has yet to visit
    collectErr,     \* the error collectFilesFromDir returned (NoError: nil)
    rpc, rattempt, lastErr, calls, delays, ret, \* one retry invocation alone
    response        \* what the service answered to the last call made

collectVars == <<dirPath, recursive, walkQueue, collectErr>>
pipeVars == <<filesToProcess, fs, dirs, pc, i, backupErr, launched, sem, wg,
              total, processed, success, failed, mu, rendered,
              wpc, transformed, writeErr, ok, reported, invocation,
              collectVars>>
retryVars == <<rpc, rattempt, lastErr, calls, delays, ret, response>>
vars == <<pipeVars, retryVars>>

N == Len(filesToProcess)
\* the FileToProcess of worker w
Task(w) == filesToProcess[w]
Workers == 1..N

\* the files whose write-back the file system may fail
FaultyFiles == 1..MaxFaultyFiles

RECURSIVE Ascending(_)
\* the elements of a set of numbers in increasing order
Ascending(S) ==
    IF S = {} THEN <<>>
    ELSE LET m == CHOOSE x \in S : \A y \in S : x <= y
         IN  <<m>> \o Ascending(S \ {m})

\* the batches a run can discover: some of the files, in walk order
Batches ==
    { [k \in 1..n |-> prepareFileForProcessing(AllPaths[k], BackupDir, InitialFS)] :
      n \in 1..(IF MaxFiles < Len(AllPaths) THEN MaxFiles ELSE Len(AllPaths)) }

\* the directories that exist when the run starts
InitialDirs ==
    UNION {Ancestors(Dir(AllPaths[k])) : k \in 1..Len(AllPaths)}

Pending == <<"pending">>

NotStarted == [text |-> <<>>, err |-> Pending]

\* no call has been made yet
NoResponse == Response(FALSE, FALSE, 0, FALSE, <<>>)

RetryIdle ==
    /\ rpc = "idle" /\ rattempt = 0 /\ lastErr = NoError
    /\ calls = <<>> /\ delays = <<>> /\ ret = NotStarted
    /\ response = NoResponse

\* main at the call of backupAllFiles, nothing backed up, no goroutine yet
PipelineInit ==
    /\ fs = InitialFS
    /\ dirs = InitialDirs
    /\ pc = "backupMkdir"
    /\ i = 1
    /\ backupErr = NoError
    /\ launched = 0
    /\ sem = 0
    /\ wg = 0
    /\ total = 0 /\ processed = 0 /\ success = 0 /\ failed = 0
    /\ mu = 0
    /\ rendered = [kind |-> "none", processed |-> 0, total |-> 0,
                   success |-> 0, failed |-> 0]
    /\ wpc = [w \in Workers |-> "none"]
    /\ transformed = [w \in Workers |-> NotStarted]
    /\ writeErr = [w \in Workers |-> Pending]
    /\ ok = [w \in Workers |-> "pending"]
    /\ reported = [w \in Workers |-> <<>>]
    /\ invocation = 1
    /\ dirPath = <<Separator>>
    /\ recursive = TRUE
    /\ walkQueue = <<>>
    /\ collectErr = NoError

Init ==
    /\ filesToProcess \in Batches
    /\ PipelineInit
    /\ RetryIdle

(***************************************************************************)
(* backupAllFiles (called from main, line 254).                            *)
(***************************************************************************)
mainVars == <<pc, i, backupErr, launched>>
barVars == <<total, processed, success, failed, mu, rendered>>
workerVars == <<wpc, transformed, writeErr, ok, reported>>

\* mutant of MoreFiles: backupAllFiles returns nil after its first file
MoreFilesNever == FALSE

\* the range loop of backupAllFiles has a file after the i-th
MoreFiles == i < N

\* os.MkdirAll(filepath.Dir(fileInfo.BackupPath)): all the missing
\* directories are made, or it fails having made none or some of them
BackupMkdirAll ==
    /\ pc = "backupMkdir"
    /\ LET backupDirPath == Dir(filesToProcess[i].BackupPath)
       IN  \/ /\ dirs' = dirs \cup Ancestors(backupDirPath)
              /\ pc' = "backupWrite"
              /\ UNCHANGED backupErr
           \/ /\ \E made \in {{}} \cup
                        {Ancestors(d) : d \in Ancestors(backupDirPath) \ {backupDirPath}} :
                     dirs' = dirs \cup made
              /\ backupErr' = <<"error creating backup directory structure">>
              /\ pc' = "backupRet"
    /\ UNCHANGED <<filesToProcess, fs, i, launched, sem, wg, barVars,
                   workerVars, retryVars, invocation, collectVars>>

\* os.WriteFile(fileInfo.BackupPath, fileInfo.Content), then the next file
BackupWriteFile ==
    /\ pc = "backupWrite"
    /\ \E o \in WriteFile(fs, dirs, filesToProcess[i].BackupPath,
                          filesToProcess[i].Content) :
          /\ fs' = o.fs
          /\ IF o.err
             THEN /\ backupErr' = <<"error creating backup file">>
                  /\ pc' = "backupRet"
                  /\ i' = i
             ELSE /\ backupErr' = backupErr
                  /\ IF MoreFiles
                     THEN pc' = "backupMkdir" /\ i' = i + 1
                     ELSE pc' = "backupRet" /\ i' = i
    /\ UNCHANGED <<filesToProcess, dirs, launched, sem, wg, barVars,
                   workerVars, retryVars, invocation, collectVars>>

(***************************************************************************)
(* main, lines 254-293.                                                    *)
(***************************************************************************)
\* mutant of BackupFailed: main does not test the error
BackupFailedIgnored == FALSE

\* err != nil, of the error backupAllFiles returned
BackupFailed == backupErr # NoError

\* if err := backupAllFiles(...); err != nil { os.Exit(1) }; otherwise the
\* semaphore, the status bar and the wait group are constructed
MainAfterBackup ==
    /\ pc = "backupRet"
    /\ IF BackupFailed
       THEN /\ pc' = "exit1"
            /\ UNCHANGED <<sem, total, wg>>
       ELSE /\ pc' = "spawn"
            /\ sem' = 0
            /\ total' = N
            /\ wg' = 0
    /\ UNCHANGED <<filesToProcess, fs, dirs, i, backupErr, launched,
                   processed, success, failed, mu, rendered,
                   workerVars, retryVars, invocation, collectVars>>

\* one iteration of the range loop: wg.Add(1); go func(fi) {...}(fileInfo)
MainSpawn ==
    /\ pc = "spawn"
    /\ launched < N
    /\ wg' = wg + 1
    /\ launched' = launched + 1
    /\ wpc' = [wpc EXCEPT ![launched + 1] = "acquire"]
    /\ pc' = IF launched + 1 = N THEN "wait" ELSE "spawn"
    /\ UNCHANGED <<filesToProcess, fs, dirs, i, backupErr, sem, barVars,
                   transformed, writeErr, ok, reported, retryVars, invocation, collectVars>>

\* mutant of WaitReturns: main does not wait for the goroutines
WaitNeverBlocks == TRUE

\* wg.Wait() stops blocking: the counter is zero
WaitReturns == wg = 0

\* wg.Wait() returns
MainWait ==
    /\ pc = "wait"
    /\ WaitReturns
    /\ pc' = "finish"
    /\ UNCHANGED <<filesToProcess, fs, dirs, i, backupErr, launched, sem, wg,
                   barVars, workerVars, retryVars, invocation, collectVars>>

\* mutant of ExitAfterFinish: the exit code tells whether a file failed
ExitByFailures == IF failed > 0 THEN "exit1" ELSE "exit0"

\* main returns after "Processing complete!": the process exits with 0
ExitAfterFinish == "exit0"

\* statusBar.Finish(): under the lock, print the final line; main returns
Finish ==
    /\ pc = "finish"
    /\ mu = 0
    /\ rendered' = [kind |-> "finish", processed |-> total, total |-> total,
                    success |-> success, failed |-> failed]
    /\ pc' = ExitAfterFinish
    /\ UNCHANGED <<filesToProcess, fs, dirs, i, backupErr, launched, sem, wg,
                   total, processed, success, failed, mu,
                   workerVars, retryVars, invocation, collectVars>>


(***************************************************************************)
(* The worker goroutine of file w (main, lines 273-285).  The steps that   *)
(* touch nothing shared are taken together with the next one that does.    *)
(***************************************************************************)
\* mutant of SemaphoreHasRoom: the channel has room for one more
SemaphoreOffByOne == sem <= MaxConcurrent

\* a send on apiSemaphore.ch goes through: the buffer is not full
SemaphoreHasRoom == sem < MaxConcurrent

\* mutant of MutexFree: the increments do not take the lock
MutexIgnored == TRUE

\* s.mu.Lock() goes through: no one holds the mutex
MutexFree == mu = 0

\* mutant of Outcome: the result of processFileContent is not tested
OutcomeAlwaysSuccess(w) == "success"

\* if success { IncrementSuccess() } else { IncrementFailed() }
Outcome(w) == IF ok[w] = "true" THEN "success" ELSE "failed"

\* apiSemaphore.Acquire(); processFileContent is called
Acquire(w) ==
    /\ wpc[w] = "acquire"
    /\ SemaphoreHasRoom
    /\ sem' = sem + 1
    /\ wpc' = [wpc EXCEPT ![w] = "processing"]
    /\ UNCHANGED <<filesToProcess, fs, dirs, mainVars, wg, barVars,
                   transformed, writeErr, ok, reported, retryVars, invocation, collectVars>>

\* processFileContent: processWithGeminiRetry returns; on an error the
\* function returns false; otherwise os.WriteFile(fileInfo.Path,
\* []byte(processedContent)) and the function returns whether it succeeded
ProcessFileContent(w) ==
    /\ wpc[w] = "processing"
    /\ \E run \in ResponseRuns :
          LET r == processWithGeminiRetry(
                       [k \in 1..Len(run) |-> processWithGemini(run[k])])
          IN  /\ transformed' = [transformed EXCEPT ![w] = r]
              /\ IF r.err # NoError
                 THEN /\ ok' = [ok EXCEPT ![w] = "false"]
                      /\ UNCHANGED <<fs, writeErr>>
                 ELSE \E o \in WriteFile(fs, dirs, filesToProcess[w].Path, r.text) :
                         /\ o.err => w \in FaultyFiles
                         /\ fs' = o.fs
                         /\ writeErr' = [writeErr EXCEPT ![w] = IF o.err THEN <<"error writing to file">> ELSE NoError]
                         /\ ok' = [ok EXCEPT ![w] = IF o.err THEN "false" ELSE "true"]
    /\ wpc' = [wpc EXCEPT ![w] = "report"]
    /\ UNCHANGED <<filesToProcess, dirs, mainVars, sem, wg, barVars,
                   reported, retryVars, invocation, collectVars>>

\* mutant of UnlockDeferred: the lock is released right after s.processed++
UnlockAtOnce == FALSE

\* defer s.mu.Unlock(): the lock is held until the Increment call returns
UnlockDeferred == TRUE

\* statusBar.IncrementSuccess() or IncrementFailed() is called:
\* s.mu.Lock(); s.processed++
IncrementLock(w) ==
    /\ wpc[w] = "report"
    /\ MutexFree
    /\ mu' = IF UnlockDeferred THEN w ELSE 0
    /\ reported' = [reported EXCEPT ![w] =
           Append(reported[w], Outcome(w))]
    /\ processed' = processed + 1
    /\ wpc' = [wpc EXCEPT ![w] = "inc2"]
    /\ UNCHANGED <<filesToProcess, fs, dirs, mainVars, sem, wg,
                   total, success, failed, rendered,
                   transformed, writeErr, ok, retryVars, invocation, collectVars>>

\* s.success++ in IncrementSuccess, s.failed++ in IncrementFailed; then
\* s.update() prints the status line and the deferred s.mu.Unlock() runs
IncrementOutcome(w) ==
    /\ wpc[w] = "inc2"
    /\ LET s1 == IF reported[w][Len(reported[w])] = "success"
                 THEN success + 1 ELSE success
           f1 == IF reported[w][Len(reported[w])] = "success"
                 THEN failed ELSE failed + 1
       IN  /\ success' = s1
           /\ failed' = f1
           /\ rendered' = [kind |-> "update", processed |-> processed,
                           total |-> total, success |-> s1, failed |-> f1]
    /\ mu' = 0
    /\ wpc' = [wpc EXCEPT ![w] = "release"]
    /\ UNCHANGED <<filesToProcess, fs, dirs, mainVars, sem, wg,
                   total, processed,
                   transformed, writeErr, ok, reported, retryVars, invocation, collectVars>>

\* mutant of ReleaseRuns: Release is called only after a successful file
ReleaseOnSuccessOnly(w) == ok[w] = "true"

\* mutant of ReleaseRuns: Release is skipped on the early return of
\* processFileContent after a failed transform
ReleaseUnlessTransformFailed(w) == transformed[w].err = NoError

\* defer apiSemaphore.Release(): the call is deferred right after Acquire,
\* so it runs when the goroutine's function returns, whatever the outcome
ReleaseRuns(w) == TRUE

\* the deferred apiSemaphore.Release(): a receive from the channel
Release(w) ==
    /\ wpc[w] = "release"
    /\ sem > 0
    /\ sem' = IF ReleaseRuns(w) THEN sem - 1 ELSE sem
    /\ wpc' = [wpc EXCEPT ![w] = "wgdone"]
    /\ UNCHANGED <<filesToProcess, fs, dirs, mainVars, wg, barVars,
                   transformed, writeErr, ok, reported, retryVars, invocation, collectVars>>

\* the deferred wg.Done()
WgDone(w) ==
    /\ wpc[w] = "wgdone"
    /\ wg' = wg - 1
    /\ wpc' = [wpc EXCEPT ![w] = "done"]
    /\ UNCHANGED <<filesToProcess, fs, dirs, mainVars, sem, barVars,
                   transformed, writeErr, ok, reported, retryVars, invocation, collectVars>>

Worker(w) ==
    \/ Acquire(w)
    \/ ProcessFileContent(w)
    \/ IncrementLock(w)
    \/ IncrementOutcome(w)
    \/ Release(w)
    \/ WgDone(w)

Next ==
    \/ BackupMkdirAll
    \/ BackupWriteFile
    \/ MainAfterBackup
    \/ MainSpawn
    \/ MainWait
    \/ Finish
    \/ \E w \in Workers : Worker(w)

Spec == Init /\ [][Next]_vars

\* The Go scheduler runs every goroutine that can run: main and each worker
\* take their next step when it stays possible.  A worker inside
\* processFileContent can always step, for every remote call returns (the
\* HTTP client has a timeout) and the retries are bounded.
Fairness ==
    /\ WF_vars(BackupMkdirAll \/ BackupWriteFile \/ MainAfterBackup
                \/ MainSpawn \/ MainWait \/ Finish)
    /\ \A w \in 1..MaxFiles : WF_vars(w \in Workers /\ Worker(w))

SpecLive == Spec /\ Fairness


(***************************************************************************)
(* The program run again over the same path after a run that completed:    *)
(* main discovers the same files, prepareFileForProcessing reads what they *)
(* hold now and derives the same backup paths, and the run starts at       *)
(* backupAllFiles with the file system the earlier run left.               *)
(***************************************************************************)
\* how many invocations SpecRerun follows
MaxRuns == 2
\* the largest batch of SpecRerun
MaxRerunFiles == 2

NextRun ==
    /\ pc = "exit0"
    /\ invocation < MaxRuns
    /\ invocation' = invocation + 1
    /\ filesToProcess' =
          [k \in 1..N |-> prepareFileForProcessing(Task(k).Path, BackupDir, fs)]
    /\ pc' = "backupMkdir"
    /\ i' = 1
    /\ backupErr' = NoError
    /\ launched' = 0
    /\ sem' = 0
    /\ wg' = 0
    /\ total' = 0 /\ processed' = 0 /\ success' = 0 /\ failed' = 0
    /\ mu' = 0
    /\ rendered' = [kind |-> "none", processed |-> 0, total |-> 0,
                    success |-> 0, failed |-> 0]
    /\ wpc' = [w \in Workers |-> "none"]
    /\ transformed' = [w \in Workers |-> NotStarted]
    /\ writeErr' = [w \in Workers |-> Pending]
    /\ ok' = [w \in Workers |-> "pending"]
    /\ reported' = [w \in Workers |-> <<>>]
    /\ UNCHANGED <<fs, dirs, retryVars, collectVars>>

InitRerun ==
    /\ Init
    /\ N <= MaxRerunFiles

NextRerun ==
    \/ Next
    \/ NextRun

SpecRerun == InitRerun /\ [][NextRerun]_vars


(***************************************************************************)
(* collectFilesFromDir (lines 295-333): filepath.Walk over a directory     *)
(* tree, walkFunc called on every entry it visits.  The tree has fixed     *)
(* directories and any subset of the files of TreeEntries.                 *)
(***************************************************************************)
UpperCase == <<"A", "B", "C", "D", "E", "F", "G", "H", "I", "J", "K", "L", "M",
               "N", "O", "P", "Q", "R", "S", "T", "U", "V", "W", "X", "Y", "Z">>
LowerCase == <<"a", "b", "c", "d", "e", "f", "g", "h", "i", "j", "k", "l", "m",
               "n", "o", "p", "q", "r", "s", "t", "u", "v", "w", "x", "y", "z">>

\* strings.ToLower
ToLower(str) ==
    [k \in 1..Len(str) |->
        IF \E u \in 1..Len(UpperCase) : UpperCase[u] = str[k]
        THEN LowerCase[CHOOSE u \in 1..Len(UpperCase) : UpperCase[u] = str[k]]
        ELSE str[k]]

TreeDir(path) == [path |-> path, isDir |-> TRUE]
TreeFile(path) == [path |-> path, isDir |-> FALSE]

\* the entries of the tree in the order filepath.Walk visits them from "/":
\* the names of a directory in lexical order, a directory's entries right
\* after the directory
TreeEntries ==
    << TreeDir(<<"/">>),
       TreeDir(<<"/", "w">>),
       TreeFile(<<"/", "w", "/", "B", ".", "M", "D">>),
       TreeFile(<<"/", "w", "/", "a", ".", "m", "d">>),
       TreeFile(<<"/", "w", "/", "c", ".", "t", "x", "t">>),
       TreeDir(<<"/", "w", "/", "d">>),
       TreeFile(<<"/", "w", "/", "d", "/", "a", ".", "m", "d">>),
       TreeFile(<<"/", "w", "/", "m", "d">>),
       TreeDir(<<"/", "w", "x">>),
       TreeFile(<<"/", "w", "x", "/", "a", ".", "m", "d">>),
       TreeDir(<<"/", "x">>),
       TreeDir(<<"/", "x", "/", "a">>),
       TreeFile(<<"/", "x", "/", "a", "/", "b", ".", "m", "d">>),
       TreeFile(<<"/", "x", "/", "a", "_", "b", ".", "m", "d">>) >>

TreeDirs == {TreeEntries[k].path : k \in {j \in 1..Len(TreeEntries) : TreeEntries[j].isDir}}
TreeFiles == {TreeEntries[k].path : k \in {j \in 1..Len(TreeEntries) : ~TreeEntries[j].isDir}}

\* the directories filepath.Walk may be started on
Roots == {<<"/">>, <<"/", "w">>, <<"/", "w", "/", "d">>, <<"/", "x">>}

\* path lies below the directory dir, at any depth
Below(path, dir) ==
    IF dir = <<Separator>>
    THEN path # dir /\ HasPrefix(path, dir)
    ELSE HasPrefix(path, dir \o <<Separator>>)

\* what filepath.Walk(root, walkFunc) visits when no directory is skipped:
\* the root, then every existing entry below it
WalkOrder(root, fsys) ==
    LET Visited(e) ==
            /\ e.path = root \/ Below(e.path, root)
            /\ e.isDir \/ e.path \in DOMAIN fsys
    IN  SelectSeq(TreeEntries, Visited)

\* mutant of SkipsDir: no directory is skipped
SkipsDirNever(e) == FALSE

\* if !recursive && path != dirPath { return filepath.SkipDir }
SkipsDir(e) == ~recursive /\ e.path # dirPath

\* !strings.HasSuffix(strings.ToLower(info.Name()), ".md") is false
IsMarkdown(e) == HasSuffix(ToLower(Base(e.path)), MdSuffix)

\* the tuples of the variables collectFilesFromDir does not touch
pipelineRest == <<fs, dirs, mainVars, sem, wg, barVars, workerVars,
                  invocation, retryVars>>

InitCollect ==
    /\ dirPath \in Roots
    /\ recursive \in BOOLEAN
    /\ \E S \in SUBSET TreeFiles : fs = [f \in S |-> <<"#">>]
    /\ dirs = TreeDirs
    /\ walkQueue = WalkOrder(dirPath, fs)
    /\ collectErr = NoError
    /\ filesToProcess = <<>>
    /\ pc = "collect"
    /\ i = 1
    /\ backupErr = NoError
    /\ launched = 0
    /\ sem = 0
    /\ wg = 0
    /\ total = 0 /\ processed = 0 /\ success = 0 /\ failed = 0
    /\ mu = 0
    /\ rendered = [kind |-> "none", processed |-> 0, total |-> 0,
                   success |-> 0, failed |-> 0]
    /\ wpc = <<>>
    /\ transformed = <<>>
    /\ writeErr = <<>>
    /\ ok = <<>>
    /\ reported = <<>>
    /\ invocation = 1
    /\ RetryIdle

\* walkFunc on the next entry: a directory is entered or skipped, a file
\* that is not markdown is passed over, a markdown file is prepared and
\* appended; when os.ReadFile fails in prepareFileForProcessing the walk
\* stops and collectFilesFromDir returns nil and the error
WalkFunc ==
    /\ pc = "collect"
    /\ walkQueue # <<>>
    /\ LET e == Head(walkQueue)
           rest == Tail(walkQueue)
           Kept(x) == ~Below(x.path, e.path)
       IN  IF e.isDir
           THEN /\ walkQueue' = IF SkipsDir(e) THEN SelectSeq(rest, Kept) ELSE rest
                /\ UNCHANGED <<filesToProcess, collectErr>>
           ELSE IF ~IsMarkdown(e)
           THEN /\ walkQueue' = rest
                /\ UNCHANGED <<filesToProcess, collectErr>>
           ELSE \/ /\ filesToProcess' = Append(filesToProcess,
                          prepareFileForProcessing(e.path, BackupDir, fs))
                   /\ walkQueue' = rest
                   /\ UNCHANGED collectErr
                \/ /\ filesToProcess' = <<>>
                   /\ walkQueue' = <<>>
                   /\ collectErr' = <<"error walking directory">>
    /\ UNCHANGED <<pipelineRest, dirPath, recursive>>

NextCollect == WalkFunc

SpecCollect == InitCollect /\ [][NextCollect]_vars


(***************************************************************************)
(* processWithGeminiRetry step by step (lines 420-447): one invocation,    *)
(* with the result of every call and the length of every sleep.            *)
(* Durations are in milliseconds.                                          *)
(***************************************************************************)
\* rand.Float64(), in thousandths
RandDraws == {0, 500, 999}

\* backoffSeconds: InitialBackoff * 2^attempt, at most MaxBackoff
backoff(att) ==
    LET b == InitialBackoff * (2 ^ att)
    IN  IF b > MaxBackoff THEN MaxBackoff ELSE b

\* mutant of backoffWithJitter: jitter = draw * 0.8 - 0.4
backoffWithWideJitter(att, draw) ==
    (backoff(att) * (10000 + (8 * draw - 4000))) \div 10000

\* backoffSeconds * (1 + jitter) with jitter = draw * 0.4 - 0.2
backoffWithJitter(att, draw) ==
    (backoff(att) * (10000 + (4 * draw - 2000))) \div 10000

InitRetry ==
    /\ filesToProcess \in {b \in Batches : Len(b) = 1}
    /\ PipelineInit
    /\ rpc = "call"
    /\ rattempt = 0
    /\ lastErr = NoError
    /\ calls = <<>>
    /\ delays = <<>>
    /\ ret = NotStarted
    /\ response = NoResponse

\* result, err := processWithGemini(content); if err == nil return;
\* lastErr = err
RetryAttempt ==
    /\ rpc = "call"
    /\ LoopContinues(rattempt)
    /\ \E resp \in Responses :
          LET r == processWithGemini(resp)
          IN  /\ calls' = Append(calls, r)
              /\ response' = resp
              /\ IF r.err = NoError
                 THEN /\ ret' = [text |-> r.text, err |-> NoError]
                      /\ rpc' = "returned"
                      /\ lastErr' = lastErr
                 ELSE /\ lastErr' = r.err
                      /\ rpc' = "sleep"
                      /\ ret' = ret
    /\ UNCHANGED <<pipeVars, rattempt, delays>>

\* time.Sleep(backoffWithJitter); attempt++; when the loop ends,
\* return "", "max retries exceeded: lastErr"
RetryBackoff ==
    /\ rpc = "sleep"
    /\ \E draw \in RandDraws :
          delays' = Append(delays, backoffWithJitter(rattempt, draw))
    /\ rattempt' = rattempt + 1
    /\ IF LoopContinues(rattempt + 1)
       THEN rpc' = "call" /\ ret' = ret
       ELSE /\ rpc' = "returned"
            /\ ret' = [text |-> <<>>, err |-> MaxRetriesExceeded(lastErr)]
    /\ UNCHANGED <<pipeVars, lastErr, calls, response>>

NextRetry ==
    \/ RetryAttempt
    \/ RetryBackoff

SpecRetry == InitRetry /\ [][NextRetry]_vars


(***************************************************************************)
(* Properties.                                                             *)
(***************************************************************************)
\* the original of task w still holds the content read at discovery
Untouched(w) == fs[Task(w).Path] = Task(w).Content

\* the backup of task w exists and is identical to the content read
BackedUp(w) ==
    /\ Task(w).BackupPath \in DOMAIN fs
    /\ fs[Task(w).BackupPath] = Task(w).Content

\* C1: whenever a step overwrites the original file of a task, the file at
\* the task's BackupPath exists at that instant and holds exactly the
\* task's original content.
C1_BackupBeforeOverwrite ==
    [][\A w \in Workers :
          fs'[Task(w).Path] # fs[Task(w).Path] => BackedUp(w)]_vars

\* main is in backupAllFiles or at the test of what it returned
InBackupPhase == pc \in {"backupMkdir", "backupWrite", "backupRet"}

\* no goroutine exists and no transform call has been made
NoWorkerStarted ==
    \A w \in Workers : wpc[w] = "none" /\ transformed[w] = NotStarted

\* the tasks up to the k-th that share the backup path of task w
SameBackup(w, k) ==
    {v \in 1..k : Task(v).BackupPath = Task(w).BackupPath}

\* C2: once backupAllFiles has failed (directory creation or file write),
\* main is at the test of the error or has exited non-zero: no backup step
\* follows the failure, no goroutine exists, no transform call was made,
\* every original holds its content, the backups written before the failing
\* file are in place (with their content where the failing write did not
\* go to the same path), and the exit state is final.
C2_BackupFailureAborts ==
    /\ backupErr # NoError =>
          /\ pc \in {"backupRet", "exit1"}
          /\ NoWorkerStarted
          /\ launched = 0 /\ processed = 0
          /\ \A w \in Workers : Untouched(w)
          /\ \A w \in 1..(i - 1) :
                /\ Task(w).BackupPath \in DOMAIN fs
                /\ SameBackup(w, i) = {w} => BackedUp(w)
          /\ \A w \in (i + 1)..N :
                SameBackup(w, i) = {} => Task(w).BackupPath \notin DOMAIN fs
    /\ pc = "exit1" => backupErr # NoError /\ ~ENABLED Next

\* C2 witness: the write of the second backup failed after the first
\* backup was written, and the process has exited non-zero
C2_Witness ==
    /\ pc = "exit1"
    /\ backupErr = <<"error creating backup file">>
    /\ i = 2
    /\ N = 3
    /\ BackedUp(1)

\* C3: while main is in the backup phase no goroutine exists, no transform
\* call has been made and no original has been written; and once a
\* goroutine exists, the backup of every task, the last included, has been
\* written and backupAllFiles has returned nil.
C3_BackupPrecedesWorkers ==
    /\ InBackupPhase => NoWorkerStarted /\ \A w \in Workers : Untouched(w)
    /\ ~NoWorkerStarted =>
          /\ i = N
          /\ backupErr = NoError
          /\ \A w \in Workers : Task(w).BackupPath \in DOMAIN fs

\* C3 witness: a worker is inside processFileContent in a batch of three
C3_Witness ==
    /\ N = 3
    /\ wpc[3] = "processing"
    /\ \A w \in Workers : Task(w).BackupPath \in DOMAIN fs

\* the workers inside processFileContent, hence those inside
\* processWithGeminiRetry
InTransform == {w \in Workers : wpc[w] = "processing"}

\* C4: at most MaxConcurrent workers are inside processWithGeminiRetry.
C4_AtMostCInFlight ==
    /\ Cardinality(InTransform) <= MaxConcurrent
    /\ sem <= MaxConcurrent

\* C4 witness: MaxConcurrent workers are in their transform while another
\* one, already launched, waits for the semaphore
C4_Witness ==
    /\ Cardinality(InTransform) = MaxConcurrent
    /\ \E w \in Workers : wpc[w] = "acquire"

\* C5: whenever the status bar's lock is free, and in every status line
\* printed, processed = success + failed and processed <= total; total is
\* the batch's size from the construction on; when Finish is called,
\* processed = total.
C5_StatusBarCounters ==
    /\ total = IF InBackupPhase \/ pc = "exit1" THEN 0 ELSE N
    /\ mu = 0 => processed = success + failed /\ processed <= total
    /\ rendered.kind # "none" =>
          /\ rendered.processed = rendered.success + rendered.failed
          /\ rendered.processed <= rendered.total
          /\ rendered.total = N
    /\ pc = "finish" => processed = total
    /\ rendered.kind = "finish" => processed = total

\* C5 witness: Finish is about to be called after successes and failures
C5_Witness ==
    /\ pc = "finish"
    /\ total = 3
    /\ success = 2
    /\ failed = 1
    /\ rendered.kind = "update"
    /\ rendered.processed = 3

\* C6: every original file holds either its original content or exactly
\* the text its successful transform returned; if its write-back failed it
\* holds its original content.
C6_ResultOrOriginal ==
    \A w \in Workers :
       /\ \/ Untouched(w)
          \/ transformed[w].err = NoError /\ fs[Task(w).Path] = transformed[w].text
       /\ writeErr[w] \notin {NoError, Pending} => Untouched(w)

\* the error processWithGeminiRetry returns when every call failed
Exhausted(w) == transformed[w].err \notin {NoError, Pending}

\* the worker is past its Increment call
HasReported(w) == wpc[w] \in {"release", "wgdone", "done"}

\* C7: one invocation of processWithGeminiRetry makes at most MaxRetries
\* calls and none after a successful one; a successful call is returned at
\* once, with its text and no error; the invocation returns an error
\* exactly when MaxRetries calls were made and all failed, the error wraps
\* the error of the last call, and the text returned with it is empty.
C7_RetryContract ==
    /\ Len(calls) <= MaxRetries
    /\ \A k \in 1..(Len(calls) - 1) : calls[k].err # NoError
    /\ (calls # <<>> /\ calls[Len(calls)].err = NoError) =>
          /\ rpc = "returned"
          /\ ret = [text |-> calls[Len(calls)].text, err |-> NoError]
    /\ rpc = "returned" =>
          /\ ret.err # Pending
          /\ ret.err # NoError <=>
                /\ Len(calls) = MaxRetries
                /\ \A k \in 1..MaxRetries : calls[k].err # NoError
          /\ ret.err # NoError =>
                /\ ret.err = <<"max retries exceeded">> \o calls[MaxRetries].err
                /\ ret.text = <<>>
    /\ rpc # "returned" => ret = NotStarted

\* C7 witness: five failed calls of different kinds, and the error of the
\* last one is the one wrapped
C7_Witness ==
    /\ rpc = "returned"
    /\ Len(calls) = MaxRetries
    /\ calls[1].err = <<"error sending request">>
    /\ calls[MaxRetries].err = <<"no valid response from API">>
    /\ ret.err = <<"max retries exceeded", "no valid response from API">>

\* C8: the n-th sleep follows the failed attempt n - 1 and lasts between
\* 0.8 and 1.2 times min(InitialBackoff * 2^(n-1), MaxBackoff), with
\* InitialBackoff one second and MaxBackoff thirty; nothing is slept before
\* the first attempt.
C8_BackoffWithinJitter ==
    /\ calls = <<>> => delays = <<>>
    /\ Len(delays) <= Len(calls)
    /\ \A n \in 1..Len(delays) :
          LET e == 1000 * (2 ^ (n - 1))
              b == IF e < 30000 THEN e ELSE 30000
          IN  /\ calls[n].err # NoError
              /\ 10 * delays[n] >= 8 * b
              /\ 10 * delays[n] <= 12 * b

\* C8 witness: the sleeps after the attempts 0 to 4 took the shortest, the
\* longest and the unjittered delay
C8_Witness ==
    /\ Len(delays) = MaxRetries
    /\ delays[1] = 800
    /\ delays[2] = 2000
    /\ delays[MaxRetries] = 19193

\* C9: every task reports at most once and, once its worker is past the
\* report, exactly once: success exactly when its transform succeeded and
\* its write-back succeeded, failure otherwise; a task whose transform
\* exhausted its retries never has its original written; at the end every
\* task has reported and the counters are the numbers of the reports.
C9_OneOutcomePerTask ==
    /\ \A w \in Workers :
          /\ Len(reported[w]) <= 1
          /\ HasReported(w) => Len(reported[w]) = 1
          /\ reported[w] # <<>> =>
                (reported[w][1] = "success" <=>
                    transformed[w].err = NoError /\ writeErr[w] = NoError)
          /\ reported[w] # <<>> => reported[w][1] \in {"success", "failed"}
          /\ Exhausted(w) => writeErr[w] = Pending /\ Untouched(w)
    /\ pc \in {"finish", "exit0"} =>
          /\ \A w \in Workers : Len(reported[w]) = 1
          /\ success = Cardinality({w \in Workers : reported[w] = <<"success">>})
          /\ failed = Cardinality({w \in Workers : reported[w] = <<"failed">>})

\* C9 witness: at the end of a run of three files, one write-back failed,
\* one transform exhausted its retries and one task succeeded
C9_Witness ==
    /\ pc = "exit0"
    /\ N = 3
    /\ writeErr[1] = <<"error writing to file">> /\ reported[1] = <<"failed">>
    /\ Exhausted(2) /\ reported[2] = <<"failed">>
    /\ reported[3] = <<"success">> /\ fs[Task(3).Path] = transformed[3].text

\* the workers holding a permit of the semaphore
Admitted == {w \in Workers : wpc[w] \in {"processing", "report", "inc2", "release"}}

\* a launched, unfinished worker with no step to take
Blocked(w) == wpc[w] \notin {"none", "done"} /\ ~ENABLED Worker(w)

\* C10: wg.Wait returns and Finish runs only when every task has reported
\* and its goroutine has ended; and a worker that cannot step waits for a
\* permit or the lock held by an unfinished worker that can step, so a task
\* that has failed and ended keeps no other task from going on.
C10_CompletionAfterAll ==
    /\ pc \in {"finish", "exit0"} =>
          /\ \A w \in Workers : wpc[w] = "done" /\ Len(reported[w]) = 1
          /\ processed = N
    /\ \A w \in Workers :
          Blocked(w) => \E v \in Admitted : ~Blocked(v)

\* C10 witness: with more files than permits, the run has completed with a
\* failed first task and every other task successful
C10_Witness ==
    /\ pc = "exit0"
    /\ N > MaxConcurrent
    /\ reported[1] = <<"failed">>
    /\ \A w \in 2..N : reported[w] = <<"success">> /\ fs[Task(w).Path] = transformed[w].text

\* C11: under fair scheduling and with every remote call returning, a run
\* whose backup phase succeeded eventually runs Finish and exits, and by
\* then every task has acquired the semaphore, has been through its
\* transform and has reached the end of its goroutine, and no permit is
\* held; this also when tasks fail (MaxConcurrent = 3 permits, up to
\* MaxFiles tasks).
C11_EveryTaskTerminates ==
    (pc = "spawn") ~>
        /\ pc = "exit0"
        /\ rendered.kind = "finish"
        /\ sem = 0
        /\ \A w \in Workers :
              /\ wpc[w] = "done"
              /\ transformed[w] # NotStarted
              /\ Len(reported[w]) = 1

\* C11 witness: a run of more tasks than permits has finished although
\* every task failed
C11_Witness ==
    /\ pc = "exit0"
    /\ rendered.kind = "finish"
    /\ N > MaxConcurrent
    /\ failed = N
    /\ \A w \in Workers : wpc[w] = "done"

\* the permits held are those of the workers between Acquire and Release
PermitsMatchHolders ==
    /\ sem = Cardinality(Admitted)
    /\ pc \in {"finish", "exit0"} => sem = 0 /\ Admitted = {}
    /\ InBackupPhase \/ pc = "exit1" => sem = 0

\* C12: before and after every step the number of permits held equals the
\* number of workers between their Acquire and their Release, and it is
\* zero once the run has completed, whether the tasks succeeded or failed;
\* the permits change only by a worker's own Acquire (one more) or by the
\* one Release of a worker that acquired (one less).
C12_AcquireReleasePaired ==
    [][/\ PermitsMatchHolders
       /\ PermitsMatchHolders'
       /\ sem' # sem =>
             \E w \in Workers :
                /\ \A v \in Workers \ {w} : wpc'[v] = wpc[v]
                /\ \/ /\ wpc[w] = "acquire" /\ wpc'[w] = "processing"
                      /\ sem' = sem + 1
                   \/ /\ wpc[w] = "release" /\ wpc'[w] = "wgdone"
                      /\ sem' = sem - 1
       /\ \A w \in Workers :
             wpc[w] = "release" /\ wpc'[w] # wpc[w] => sem' = sem - 1]_vars

\* C12 witness: two permits are held while a worker that failed and one
\* that succeeded have released theirs
C12_Witness ==
    /\ sem = 2
    /\ Cardinality(Admitted) = 2
    /\ \E w \in Workers : wpc[w] = "done" /\ reported[w] = <<"failed">>
    /\ \E w \in Workers : wpc[w] = "done" /\ reported[w] = <<"success">>

\* C13: the process is in the non-zero-exit state only when the backup
\* phase failed and in the zero-exit state only when it succeeded; once the
\* backup phase has succeeded main never reaches the non-zero exit,
\* whatever the number of failed tasks; and a state with no step left is
\* one of the two exit states, the zero one exactly when the backup phase
\* succeeded.
C13_ExitCode ==
    /\ pc = "exit1" => backupErr # NoError
    /\ pc = "exit0" => backupErr = NoError /\ processed = N
    /\ (backupErr = NoError /\ ~InBackupPhase) =>
          pc \in {"spawn", "wait", "finish", "exit0"}
    /\ ~ENABLED Next =>
          /\ pc \in {"exit0", "exit1"}
          /\ pc = "exit0" <=> backupErr = NoError

\* C13 witness: the process has exited with zero after both tasks of the
\* batch failed, one in its transform and one in its write-back
C13_Witness ==
    /\ pc = "exit0"
    /\ ~ENABLED Next
    /\ N = 2
    /\ failed = 2 /\ success = 0
    /\ writeErr[1] = <<"error writing to file">>
    /\ Exhausted(2)

\* the backup of task k has been written in full: by this run's
\* backupAllFiles, or by the earlier run
BackupWritten(k) ==
    \/ invocation > 1
    \/ k < i
    \/ k = i /\ pc \notin {"backupMkdir", "backupWrite"} /\ backupErr = NoError

\* C14: no step changes or removes a backup file that has been written:
\* no later backup write, no write-back of a worker, no later run over the
\* same files.
C14_BackupNeverMutated ==
    [][\A k \in Workers :
          BackupWritten(k) =>
             /\ Task(k).BackupPath \in DOMAIN fs'
             /\ fs'[Task(k).BackupPath] = fs[Task(k).BackupPath]]_vars

\* the file lies in the working directory or in a directory below it
UnderWorkDir(path) == Dir(path) = WorkDir \/ Below(Dir(path), WorkDir)

\* the path of a file under the working directory, relative to it
RelativeToWorkDir(path) == SubSeq(path, Len(WorkDir) + 2, Len(path))

\* the backup path the rule gives: under the backup root, the relative
\* path of a file under the working directory, the flattened absolute
\* path of any other file, with the suffix ".bak"
RuleBackupPath(path) ==
    IF UnderWorkDir(path)
    THEN BackupDir \o <<"/">> \o RelativeToWorkDir(path) \o <<".", "b", "a", "k">>
    ELSE BackupDir \o <<"/">>
         \o [k \in 1..Len(path) |-> IF path[k] = "/" THEN "_" ELSE path[k]]
         \o <<".", "b", "a", "k">>

\* C15: the backup path of every collected file is the one the rule gives:
\* relative path plus ".bak" for a file under the working directory, the
\* absolute path with every separator replaced by "_" plus ".bak" for a
\* file outside it, a sibling directory whose name starts with the working
\* directory's name included.
C15_BackupPathRule ==
    \A k \in 1..Len(filesToProcess) :
       filesToProcess[k].BackupPath = RuleBackupPath(filesToProcess[k].Path)

\* C16: any two tasks of a batch have distinct backup paths.
C16_BackupPathInjective ==
    \A j, k \in 1..Len(filesToProcess) :
       j # k => filesToProcess[j].BackupPath # filesToProcess[k].BackupPath

\* the name ends in ".md", in any case of its letters
EndsInMd(name) ==
    /\ Len(name) >= 3
    /\ name[Len(name) - 2] = "."
    /\ name[Len(name) - 1] \in {"m", "M"}
    /\ name[Len(name)] \in {"d", "D"}

\* the files collectFilesFromDir is to return
Matching ==
    {f \in DOMAIN fs :
        /\ EndsInMd(Base(f))
        /\ IF recursive THEN Below(f, dirPath) ELSE Dir(f) = dirPath}

Collected == {filesToProcess[k].Path : k \in 1..Len(filesToProcess)}

\* C20: during the walk only matching files are collected, none twice, each
\* with the content it holds; when the walk has ended without an error the
\* files returned are exactly the files whose name ends in ".md" (in any
\* case) that lie directly in the directory given, in non-recursive mode,
\* or at any depth below it, in recursive mode.
C20_CollectExactlyMatching ==
    /\ Collected \subseteq Matching
    /\ Cardinality(Collected) = Len(filesToProcess)
    /\ \A k \in 1..Len(filesToProcess) :
          filesToProcess[k].Content = fs[filesToProcess[k].Path]
    /\ (walkQueue = <<>> /\ collectErr = NoError) => Collected = Matching
    /\ collectErr # NoError => filesToProcess = <<>> /\ walkQueue = <<>>

\* C20 witness: the non-recursive walk of /w has ended; the directory holds
\* two markdown files, one with an upper-case suffix, and two other files,
\* its subdirectory holds a markdown file; the two top-level markdown files
\* were returned
C20_Witness ==
    /\ ~recursive
    /\ dirPath = <<"/", "w">>
    /\ walkQueue = <<>>
    /\ collectErr = NoError
    /\ {<<"/", "w", "/", "c", ".", "t", "x", "t">>, <<"/", "w", "/", "m", "d">>,
        <<"/", "w", "/", "d", "/", "a", ".", "m", "d">>} \subseteq DOMAIN fs
    /\ Collected = {<<"/", "w", "/", "B", ".", "M", "D">>,
                    <<"/", "w", "/", "a", ".", "m", "d">>}

\* C17: every sleep is followed by a further attempt: there are never more
\* than MaxRetries - 1 sleeps, and an invocation that returns has slept
\* once less than it has called, so the one that exhausts its budget made
\* MaxRetries calls and MaxRetries - 1 sleeps.
C17_NoSleepAfterLastAttempt ==
    /\ Len(delays) <= MaxRetries - 1
    /\ rpc = "returned" => Len(delays) = Len(calls) - 1
    /\ (rpc = "returned" /\ ret.err # NoError) =>
          Len(calls) = MaxRetries /\ Len(delays) = MaxRetries - 1

\* the kinds of answer that make a call fail
TransportFailure(resp) == resp.sendErr \/ resp.readErr
NonSuccessStatus(resp) == resp.status # 200
MalformedBody(resp) == ~resp.bodyOk
NoCandidate(resp) == resp.candidates = <<>>
NoPart(resp) == resp.candidates # <<>> /\ resp.candidates[1] = <<>>

CallFails(resp) ==
    \/ TransportFailure(resp)
    \/ NonSuccessStatus(resp)
    \/ MalformedBody(resp)
    \/ NoCandidate(resp)
    \/ NoPart(resp)

Renders(w) == wpc[w] = "inc2" /\ wpc'[w] = "release"

\* C19: every status line an Increment call prints shows a processed count
\* one higher than the line before it (1 on the first line), so the lines
\* show 1, 2, ..., N in this order, none skipped and none twice; nothing is
\* printed after the final line; and the final line of Finish is printed
\* when the line before it showed N.
C19_RendersInOrder ==
    [][/\ \A w \in Workers :
             Renders(w) =>
                /\ rendered'.kind = "update"
                /\ rendered.kind # "finish"
                /\ rendered'.processed = rendered.processed + 1
                /\ rendered'.processed <= N
       /\ rendered' # rendered =>
             \/ \E w \in Workers : Renders(w)
             \/ /\ rendered'.kind = "finish"
                /\ rendered.kind = "update"
                /\ rendered.processed = N
                /\ rendered'.processed = N]_vars

\* C19 witness: the last of four status lines has been printed, showing 4,
\* and Finish has not yet run
C19_Witness ==
    /\ N = 4
    /\ rendered.kind = "update"
    /\ rendered.processed = 4
    /\ pc \in {"wait", "finish"}

============================================================================
